---- MODULE Spec2Model ----
(***************************************************************************)
(* ShopHub backend (backend/server.py): the document store (users,         *)
(* products, orders), the bearer tokens issued, and the request handlers   *)
(* as coroutines.  A handler runs atomically between two awaits, and each  *)
(* awaited store operation is atomic at the store, so every action below   *)
(* is one store operation together with the handler code that follows it   *)
(* up to the next await.  Prices are modelled as integers.                 *)
(***************************************************************************)
EXTENDS Integers, Sequences, FiniteSets, TLC

\* ------------------------------------------------------------------ bounds
MaxStock == 2        \* largest stock_quantity of a product of the initial shop
MaxQty == 2          \* largest quantity of a cart item
MaxProducts == 3     \* product ids handed out (two in the initial shop)

ACCESS_TOKEN_EXPIRE_MINUTES == 30

\* The requests of a behaviour: each slot serves one request, so a behaviour
\* is an interleaving of up to three requests (two in the shop).
Procs == {"r1", "r2", "r3"}
ShopProcs == {"r1", "r2"}

VARIABLES
    users,          \* db.users: sequence of documents, in insertion order
    products,       \* db.products
    orders,         \* db.orders
    uuid_products,  \* number of product ids handed out by uuid4 so far
    tokens,         \* the bearer tokens issued so far (HS256: not forgeable)
    now,            \* the clock, in minutes
    pc,             \* pc[p]: the await the coroutine p is suspended at
    req,            \* req[p]: the request p serves (operation, credentials, input)
    current_user,   \* current_user[p]: what get_current_user resolved
    loc,            \* loc[p]: the handler's local variables
    resp            \* resp[p]: the response (or HTTPException) of the finished call

vars == <<users, products, orders, uuid_products, tokens, now,
          pc, req, current_user, loc, resp>>
store == <<users, products, orders, uuid_products, tokens, now>>

\* ----------------------------------------------------------------- values
NoDoc == [none |-> TRUE]          \* find_one's None
NoRequest == [op |-> "none"]
NoLocals == [none |-> TRUE]
NoResponse == [status |-> 0]
None == {}                        \* an Optional field: None, or Some(v)
Some(v) == {v}
TheValue(opt) == CHOOSE v \in opt : TRUE

AdminEmail == "admin@shop.com"
AliceEmail == "alice@shop.com"
BobEmail == "bob@shop.com"
Addresses == {"1 Main St"}

Min(S) == CHOOSE k \in S : \A m \in S : k <= m

\* ------------------------------------------------------ password hashing
get_password_hash(password) == <<"bcrypt", password>>
verify_password(plain_password, hashed_password) ==
    hashed_password = get_password_hash(plain_password)

\* ------------------------------------------------------------ the store
\* the filter written on the wrong key: {"name": email}
users_find_one_by_name(email) ==
    LET S == {k \in DOMAIN users : users[k].name = email}
    IN  IF S = {} THEN NoDoc ELSE users[Min(S)]
users_find_one(email) ==
    LET S == {k \in DOMAIN users : users[k].email = email}
    IN  IF S = {} THEN NoDoc ELSE users[Min(S)]

products_find_one(product_id) ==
    LET S == {k \in DOMAIN products : products[k].id = product_id}
    IN  IF S = {} THEN NoDoc ELSE products[Min(S)]

orders_find_one(order_id) ==
    LET S == {k \in DOMAIN orders : orders[k].id = order_id}
    IN  IF S = {} THEN NoDoc ELSE orders[Min(S)]

\* update_one({"id": product_id}, {"$inc": {"stock_quantity": delta}}): the
\* first matching document, atomically; nothing when none matches.
\* the decrement written as one unit: {"$inc": {"stock_quantity": -1}}
products_inc_stock_one_unit(product_id, delta) ==
    LET S == {k \in DOMAIN products : products[k].id = product_id}
    IN  IF S = {} THEN products
        ELSE [products EXCEPT ![Min(S)].stock_quantity = @ - 1]
products_inc_stock(product_id, delta) ==
    LET S == {k \in DOMAIN products : products[k].id = product_id}
    IN  IF S = {} THEN products
        ELSE [products EXCEPT ![Min(S)].stock_quantity = @ + delta]

\* ------------------------------------------------------- access control
\* jwt.encode with SECRET_KEY: only the server signs
\* expires_delta not passed on: the else branch, utcnow() + timedelta(minutes=15)
create_access_token_default(email, expires_delta) ==
    [sub |-> email, exp |-> now + 15, signed |-> TRUE]
create_access_token(email, expires_delta) ==
    [sub |-> email, exp |-> now + expires_delta, signed |-> TRUE]

\* jwt.decode: the signature and the expiry
jwt_decode_ok(credentials) ==
    /\ credentials.signed
    /\ credentials.exp > now

\* get_current_user: the user document, or NoDoc for the 401
get_current_user(credentials) ==
    IF jwt_decode_ok(credentials) THEN users_find_one(credentials.sub) ELSE NoDoc

\* the role check left out
is_admin_unchecked(user) == TRUE
is_admin(user) == user.role = "admin"

CredentialsException == [status |-> 401, detail |-> "Could not validate credentials"]
NotEnoughPermissions == [status |-> 403, detail |-> "Not enough permissions"]

\* A call ends: the response is out.
Finish(p, response) ==
    /\ pc' = [pc EXCEPT ![p] = "done"]
    /\ resp' = [resp EXCEPT ![p] = response]

\* A request arrives at an endpoint: the dependencies (get_current_user's
\* find_one, and get_admin_user's role check when admin_only), then the
\* handler up to its first await: `early` is the HTTPException it raises
\* before that await (NoResponse when it raises none).
Arrive(p, request, admin_only, early, first_pc, locals) ==
    /\ pc[p] = "idle"
    /\ req' = [req EXCEPT ![p] = request]
    /\ LET user == get_current_user(request.credentials)
       IN  IF user = NoDoc
           THEN /\ Finish(p, CredentialsException)
                /\ UNCHANGED <<current_user, loc>>
           ELSE /\ current_user' = [current_user EXCEPT ![p] = user]
                /\ IF admin_only /\ ~is_admin(user)
                   THEN Finish(p, NotEnoughPermissions) /\ UNCHANGED loc
                   ELSE IF early # NoResponse
                   THEN Finish(p, early) /\ UNCHANGED loc
                   ELSE /\ loc' = [loc EXCEPT ![p] = locals]
                        /\ pc' = [pc EXCEPT ![p] = first_pc]
                        /\ UNCHANGED resp

\* ---------------------------------------------------------------- auth
UserResponse(user) ==
    [id |-> user.id, name |-> user.name, email |-> user.email, role |-> user.role,
     created_at |-> user.created_at]

\* POST /auth/register: existing_user = await db.users.find_one(...); then the
\* hash and the document to insert.  The uuid of User() is not observed
\* before the insert, and is drawn there.
register(p, user) ==
    /\ pc[p] = "idle"
    /\ req' = [req EXCEPT ![p] = [op |-> "register", user |-> user]]
    /\ IF users_find_one(user.email) # NoDoc
       THEN /\ Finish(p, [status |-> 400, detail |-> "Email already registered"])
            /\ UNCHANGED loc
       ELSE /\ loc' = [loc EXCEPT ![p] =
                  [user_dict |-> [name |-> user.name, email |-> user.email,
                                  role |-> user.role,
                                  password |-> get_password_hash(user.password),
                                  created_at |-> now]]]
            /\ pc' = [pc EXCEPT ![p] = "register_insert_one"]
            /\ UNCHANGED resp
    /\ UNCHANGED <<store, current_user>>

WithId(doc, id) ==
    [id |-> id, name |-> doc.name, email |-> doc.email, role |-> doc.role,
     password |-> doc.password, created_at |-> doc.created_at]

\* await db.users.insert_one(user_dict); the token; the response
register_insert_one(p) ==
    /\ pc[p] = "register_insert_one"
    /\ LET user_dict == WithId(loc[p].user_dict, Len(users) + 1)
           access_token == create_access_token(user_dict.email, ACCESS_TOKEN_EXPIRE_MINUTES)
       IN  /\ users' = Append(users, user_dict)
           /\ tokens' = tokens \cup {access_token}
           /\ Finish(p, [status |-> 200,
                         body |-> [access_token |-> access_token, token_type |-> "bearer",
                                   user |-> UserResponse(user_dict)]])
    /\ UNCHANGED <<products, orders, uuid_products, now, req, current_user, loc>>

\* POST /auth/login
\* the unknown email told apart from the wrong password
login_exception_leaky(user) ==
    IF user = NoDoc
    THEN [status |-> 404, detail |-> "User not found", headers |-> ""]
    ELSE [status |-> 401, detail |-> "Incorrect password",
          headers |-> "WWW-Authenticate: Bearer"]
\* the one HTTPException raised for `not user or not verify_password(...)`
login_exception(user) ==
    [status |-> 401, detail |-> "Incorrect email or password",
     headers |-> "WWW-Authenticate: Bearer"]

login(p, user_credentials) ==
    /\ pc[p] = "idle"
    /\ req' = [req EXCEPT ![p] = [op |-> "login", user_credentials |-> user_credentials]]
    /\ LET user == users_find_one(user_credentials.email)
       IN  IF user = NoDoc \/ ~verify_password(user_credentials.password, user.password)
           THEN /\ Finish(p, login_exception(user))
                /\ UNCHANGED tokens
           ELSE LET access_token ==
                        create_access_token(user.email, ACCESS_TOKEN_EXPIRE_MINUTES)
                IN  /\ tokens' = tokens \cup {access_token}
                    /\ Finish(p, [status |-> 200,
                                  body |-> [access_token |-> access_token,
                                            token_type |-> "bearer",
                                            user |-> UserResponse(user)]])
    /\ UNCHANGED <<users, products, orders, uuid_products, now, current_user, loc>>

\* GET /auth/me: no await after the dependency
get_me(p, credentials) ==
    /\ LET user == get_current_user(credentials)
       IN  Arrive(p, [op |-> "get_me", credentials |-> credentials], FALSE,
                  IF user = NoDoc THEN NoResponse
                  ELSE [status |-> 200, body |-> UserResponse(user)],
                  "done", NoLocals)
    /\ UNCHANGED store

\* create_default_admin(): not a request, a task of the process
create_default_admin(p) ==
    /\ pc[p] = "idle"
    /\ req' = [req EXCEPT ![p] = [op |-> "create_default_admin"]]
    /\ IF users_find_one(AdminEmail) # NoDoc
       THEN /\ pc' = [pc EXCEPT ![p] = "done"]
            /\ UNCHANGED loc
       ELSE /\ loc' = [loc EXCEPT ![p] =
                  [user_dict |-> [name |-> "Default Admin", email |-> AdminEmail,
                                  role |-> "admin",
                                  password |-> get_password_hash("admin123"),
                                  created_at |-> now]]]
            /\ pc' = [pc EXCEPT ![p] = "create_default_admin_insert_one"]
    /\ UNCHANGED <<store, current_user, resp>>

create_default_admin_insert_one(p) ==
    /\ pc[p] = "create_default_admin_insert_one"
    /\ users' = Append(users, WithId(loc[p].user_dict, Len(users) + 1))
    /\ pc' = [pc EXCEPT ![p] = "done"]
    /\ UNCHANGED <<products, orders, uuid_products, tokens, now, req, current_user, loc, resp>>

\* create_sample_products: prices in cents
sample_products ==
    << [name |-> "Wireless Headphones",
        description |-> "High-quality wireless headphones with noise cancellation",
        price |-> 9999, stock_quantity |-> 50, image_url |-> "photo-1505740420928"],
       [name |-> "Smart Watch",
        description |-> "Advanced smartwatch with fitness tracking and notifications",
        price |-> 19999, stock_quantity |-> 30, image_url |-> "photo-1523275335684"],
       [name |-> "Laptop Stand",
        description |-> "Ergonomic laptop stand for better posture and productivity",
        price |-> 2999, stock_quantity |-> 100, image_url |-> "photo-1527864550417"],
       [name |-> "Coffee Maker",
        description |-> "Automatic coffee maker with programmable timer",
        price |-> 7999, stock_quantity |-> 25, image_url |-> "photo-1510707577719"],
       [name |-> "Desk Lamp",
        description |-> "LED desk lamp with adjustable brightness and color temperature",
        price |-> 3999, stock_quantity |-> 75, image_url |-> "photo-1507473885765"] >>

\* the filter written on the wrong key: {"description": name}
products_find_one_by_description(name) ==
    LET S == {k \in DOMAIN products : products[k].description = name}
    IN  IF S = {} THEN NoDoc ELSE products[Min(S)]
\* db.products.find_one({"name": product_data["name"]})
products_find_one_by_name(name) ==
    LET S == {k \in DOMAIN products : products[k].name = name}
    IN  IF S = {} THEN NoDoc ELSE products[Min(S)]

\* One turn of the loop from sample_products[i] on: the find_one, and past the
\* products found, up to the next await.
sample_find_one(p, i) ==
    IF products_find_one_by_name(sample_products[i].name) = NoDoc
    THEN /\ loc' = [loc EXCEPT ![p] =
               [i |-> i, product_obj |-> [id |-> uuid_products + 1,
                    name |-> sample_products[i].name,
                    description |-> sample_products[i].description,
                    price |-> sample_products[i].price,
                    stock_quantity |-> sample_products[i].stock_quantity,
                    image_url |-> sample_products[i].image_url,
                    created_at |-> now]]]
         /\ uuid_products' = uuid_products + 1
         /\ pc' = [pc EXCEPT ![p] = "create_sample_products_insert_one"]
    ELSE /\ loc' = [loc EXCEPT ![p] = [i |-> i + 1]]
         /\ uuid_products' = uuid_products
         /\ pc' = [pc EXCEPT ![p] =
               IF i < Len(sample_products)
               THEN "create_sample_products_find_one" ELSE "done"]

create_sample_products(p) ==
    /\ pc[p] = "idle"
    /\ req' = [req EXCEPT ![p] = [op |-> "create_sample_products"]]
    /\ sample_find_one(p, 1)
    /\ UNCHANGED <<users, products, orders, tokens, now, current_user, resp>>

create_sample_products_find_one(p) ==
    /\ pc[p] = "create_sample_products_find_one"
    /\ sample_find_one(p, loc[p].i)
    /\ UNCHANGED <<users, products, orders, tokens, now, req, current_user, resp>>

create_sample_products_insert_one(p) ==
    /\ pc[p] = "create_sample_products_insert_one"
    /\ products' = Append(products, loc[p].product_obj)
    /\ loc' = [loc EXCEPT ![p] = [i |-> loc[p].i + 1]]
    /\ pc' = [pc EXCEPT ![p] =
          IF loc[p].i < Len(sample_products)
          THEN "create_sample_products_find_one" ELSE "done"]
    /\ UNCHANGED <<users, orders, uuid_products, tokens, now, req, current_user, resp>>

\* lifespan(app): prints "Server is starting..." and yields; it calls neither
\* create_default_admin nor create_sample_products, and no other code does.
lifespan(p) ==
    /\ pc[p] = "idle"
    /\ \A q \in Procs : req[q].op # "lifespan"
    /\ req' = [req EXCEPT ![p] = [op |-> "lifespan"]]
    /\ pc' = [pc EXCEPT ![p] = "lifespan_yield"]
    /\ UNCHANGED <<store, current_user, loc, resp>>

\* -------------------------------------------------------------- orders
\* the quantity forgotten
LineTotal_price_only(price, quantity) == price
LineTotal(price, quantity) == price * quantity

OrderItem(item, product) ==
    [product_id |-> item.product_id, product_name |-> product.name,
     price |-> product.price, quantity |-> item.quantity]

\* the purchaser's name taken from the wrong field
Order_wrong_name(user, order_items, total_amount, delivery_address) ==
    [id |-> Len(orders) + 1,
     user_id |-> user.id, user_name |-> user.email, user_email |-> user.email,
     items |-> order_items, total_amount |-> total_amount,
     delivery_address |-> delivery_address,
     status |-> "pending", created_at |-> now]
\* another default for Order.status
Order_status_confirmed(user, order_items, total_amount, delivery_address) ==
    [id |-> Len(orders) + 1,
     user_id |-> user.id, user_name |-> user.name, user_email |-> user.email,
     items |-> order_items, total_amount |-> total_amount,
     delivery_address |-> delivery_address,
     status |-> "confirmed", created_at |-> now]
Order(user, order_items, total_amount, delivery_address) ==
    [id |-> Len(orders) + 1,
     user_id |-> user.id, user_name |-> user.name, user_email |-> user.email,
     items |-> order_items, total_amount |-> total_amount,
     delivery_address |-> delivery_address,
     status |-> "pending", created_at |-> now]

InsufficientStock(product, item) == product.stock_quantity < item.quantity

\* the cart walked from its last item: for item in reversed(order_data.items)
cart_item_reversed(order_data, i) == order_data.items[Len(order_data.items) - i + 1]
\* for item in order_data.items: the item of the i-th turn of the loop
cart_item(order_data, i) == order_data.items[i]

\* POST /orders arrives; order_items = [], total_amount = 0, and the loop
\* reaches its first find_one (or, with an empty cart, the insert_one).
create_order(p, credentials, order_data) ==
    /\ Arrive(p, [op |-> "create_order", credentials |-> credentials,
                  order_data |-> order_data],
              FALSE, NoResponse,
              IF order_data.items = <<>> THEN "create_order_insert_one"
                                         ELSE "create_order_find_one",
              [i |-> 1, order_items |-> <<>>, total_amount |-> 0, applied |-> <<>>])
    /\ UNCHANGED store

\* product = await db.products.find_one(...); the two checks; the snapshot.
create_order_find_one(p) ==
    /\ pc[p] = "create_order_find_one"
    /\ LET item == cart_item(req[p].order_data, loc[p].i)
           product == products_find_one(item.product_id)
       IN  IF product = NoDoc
           THEN /\ Finish(p, [status |-> 404,
                              detail |-> <<"Product not found", item.product_id>>])
                /\ UNCHANGED loc
           ELSE IF InsufficientStock(product, item)
           THEN /\ Finish(p, [status |-> 400,
                              detail |-> <<"Insufficient stock for", product.name>>])
                /\ UNCHANGED loc
           ELSE /\ loc' = [loc EXCEPT
                      ![p].order_items = Append(@, OrderItem(item, product)),
                      ![p].total_amount = @ + LineTotal(product.price, item.quantity)]
                /\ pc' = [pc EXCEPT ![p] = "create_order_update_one"]
                /\ UNCHANGED resp
    /\ UNCHANGED <<store, req, current_user>>

\* await db.products.update_one(..., {"$inc": ...}): the handler drops the
\* result; loc.applied keeps the stock change the store applied for it.
create_order_update_one(p) ==
    /\ pc[p] = "create_order_update_one"
    /\ LET item == cart_item(req[p].order_data, loc[p].i)
           matched == products_find_one(item.product_id) # NoDoc
       IN  /\ products' = products_inc_stock(item.product_id, -item.quantity)
           /\ loc' = [loc EXCEPT
                 ![p].i = @ + 1,
                 ![p].applied = Append(@, [product_id |-> item.product_id,
                                           delta |-> IF matched THEN -item.quantity ELSE 0])]
           /\ pc' = [pc EXCEPT ![p] =
                 IF loc[p].i < Len(req[p].order_data.items)
                 THEN "create_order_find_one" ELSE "create_order_insert_one"]
    /\ UNCHANGED <<users, orders, uuid_products, tokens, now, req, current_user, resp>>

\* order = Order(...); await db.orders.insert_one(order.dict()); return order
create_order_insert_one(p) ==
    /\ pc[p] = "create_order_insert_one"
    /\ LET order == Order(current_user[p], loc[p].order_items, loc[p].total_amount,
                          req[p].order_data.delivery_address)
       IN  /\ orders' = Append(orders, order)
           /\ Finish(p, [status |-> 200, body |-> order])
    /\ UNCHANGED <<users, products, uuid_products, tokens, now, req, current_user, loc>>

\* GET /orders: admin sees every order, anyone else their own.
\* the user_id filter left out
orders_find_unfiltered(user) == orders
orders_find(user) ==
    IF user.role = "admin" THEN orders
    ELSE SelectSeq(orders, LAMBDA o : o.user_id = user.id)

get_orders(p, credentials) ==
    /\ Arrive(p, [op |-> "get_orders", credentials |-> credentials],
              FALSE, NoResponse, "get_orders_find", NoLocals)
    /\ UNCHANGED store

get_orders_find(p) ==
    /\ pc[p] = "get_orders_find"
    /\ Finish(p, [status |-> 200, body |-> orders_find(current_user[p])])
    /\ UNCHANGED <<store, req, current_user, loc>>

\* GET /orders/{order_id}
\* the ownership check left out
may_view_order_unchecked(user, order) == TRUE
may_view_order(user, order) == ~(user.role # "admin" /\ order.user_id # user.id)

get_order_response(user, order) ==
    IF order = NoDoc THEN [status |-> 404, detail |-> "Order not found"]
    ELSE IF ~may_view_order(user, order)
    THEN [status |-> 403, detail |-> "Not authorized to view this order"]
    ELSE [status |-> 200, body |-> order]

get_order(p, credentials, order_id) ==
    /\ Arrive(p, [op |-> "get_order", credentials |-> credentials, order_id |-> order_id],
              FALSE, NoResponse, "get_order_find_one", NoLocals)
    /\ UNCHANGED store

get_order_find_one(p) ==
    /\ pc[p] = "get_order_find_one"
    /\ Finish(p, get_order_response(current_user[p], orders_find_one(req[p].order_id)))
    /\ UNCHANGED <<store, req, current_user, loc>>

\* PUT /orders/{order_id}/status
\* one more status let through
valid_statuses_with_cancelled == {"pending", "shipped", "delivered", "cancelled"}
valid_statuses == {"pending", "shipped", "delivered"}

update_order_status(p, credentials, order_id, status_update) ==
    /\ Arrive(p, [op |-> "update_order_status", credentials |-> credentials,
                  order_id |-> order_id, status_update |-> status_update],
              TRUE,
              IF status_update.status \notin valid_statuses
              THEN [status |-> 400, detail |-> "Invalid status"] ELSE NoResponse,
              "update_order_status_update_one", NoLocals)
    /\ UNCHANGED store

\* result.modified_count read in place of result.matched_count
orders_update_one_modified_count(order_id, status) ==
    IF \E k \in DOMAIN orders : orders[k].id = order_id /\ orders[k].status # status
    THEN 1 ELSE 0
\* result.matched_count of update_one({"id": order_id}, {"$set": {"status": status}})
orders_update_one_matched_count(order_id, status) ==
    IF \E k \in DOMAIN orders : orders[k].id = order_id THEN 1 ELSE 0

\* update_many with an empty filter in place of update_one({"id": order_id})
update_order_status_update_many(p) ==
    /\ pc[p] = "update_order_status_update_one"
    /\ LET S == {k \in DOMAIN orders : orders[k].id = req[p].order_id}
       IN  IF S = {}
           THEN /\ Finish(p, [status |-> 404, detail |-> "Order not found"])
                /\ UNCHANGED orders
           ELSE /\ orders' = [k \in DOMAIN orders |->
                                [orders[k] EXCEPT !.status = req[p].status_update.status]]
                /\ pc' = [pc EXCEPT ![p] = "update_order_status_find_one"]
                /\ UNCHANGED resp
    /\ UNCHANGED <<users, products, uuid_products, tokens, now, req, current_user, loc>>
update_order_status_update_one(p) ==
    /\ pc[p] = "update_order_status_update_one"
    /\ LET S == {k \in DOMAIN orders : orders[k].id = req[p].order_id}
       IN  IF orders_update_one_matched_count(req[p].order_id,
                                              req[p].status_update.status) = 0
           THEN /\ Finish(p, [status |-> 404, detail |-> "Order not found"])
                /\ UNCHANGED orders
           ELSE /\ orders' = [orders EXCEPT ![Min(S)].status = req[p].status_update.status]
                /\ pc' = [pc EXCEPT ![p] = "update_order_status_find_one"]
                /\ UNCHANGED resp
    /\ UNCHANGED <<users, products, uuid_products, tokens, now, req, current_user, loc>>

update_order_status_find_one(p) ==
    /\ pc[p] = "update_order_status_find_one"
    /\ Finish(p, [status |-> 200, body |-> orders_find_one(req[p].order_id)])
    /\ UNCHANGED <<store, req, current_user, loc>>

\* ------------------------------------------------------------- catalog
Product(id, fields) ==
    [id |-> id, name |-> fields.name, description |-> fields.description,
     price |-> fields.price, stock_quantity |-> fields.stock_quantity,
     image_url |-> fields.image_url, created_at |-> now]

\* GET /products: no dependency on get_current_user.
\* `if search:` adds the $or of the two regex filters; the calls modelled here
\* pass no search or the empty string, for which no filter is added.
\* the bounds tested `if min_price:` / `if max_price:`, a bound of 0 dropped
price_filter_truthy(product, min_price, max_price) ==
    /\ (min_price # None /\ TheValue(min_price) # 0) => product.price >= TheValue(min_price)
    /\ (max_price # None /\ TheValue(max_price) # 0) => product.price <= TheValue(max_price)
\* price_filter: $gte when min_price is not None, $lte when max_price is not None
price_filter(product, min_price, max_price) ==
    /\ min_price # None => product.price >= TheValue(min_price)
    /\ max_price # None => product.price <= TheValue(max_price)

get_products(p, search, min_price, max_price) ==
    /\ pc[p] = "idle"
    /\ search \in {None, Some("")}
    /\ req' = [req EXCEPT ![p] = [op |-> "get_products", search |-> search,
                                  min_price |-> min_price, max_price |-> max_price]]
    /\ Finish(p, [status |-> 200,
                  body |-> SelectSeq(products,
                              LAMBDA product : price_filter(product, min_price, max_price))])
    /\ UNCHANGED <<store, current_user, loc>>

\* POST /products: product_obj = Product(**product.dict()) takes its uuid
\* before the insert_one is awaited.
create_product(p, credentials, product) ==
    /\ uuid_products < MaxProducts
    /\ LET user == get_current_user(credentials)
           passes == user # NoDoc /\ is_admin(user)
       IN  /\ Arrive(p, [op |-> "create_product", credentials |-> credentials,
                         product |-> product],
                     TRUE, NoResponse, "create_product_insert_one",
                     [product_obj |-> Product(uuid_products + 1, product)])
           /\ uuid_products' = IF passes THEN uuid_products + 1 ELSE uuid_products
    /\ UNCHANGED <<users, products, orders, tokens, now>>

create_product_insert_one(p) ==
    /\ pc[p] = "create_product_insert_one"
    /\ products' = Append(products, loc[p].product_obj)
    /\ Finish(p, [status |-> 200, body |-> loc[p].product_obj])
    /\ UNCHANGED <<users, orders, uuid_products, tokens, now, req, current_user, loc>>

\* PUT /products/{product_id}
\* update_data = {k: v for k, v in product_update.dict().items() if v is not None}
\* the None values not dropped: update_data = product_update.dict()
update_data_with_none(product_update) == DOMAIN product_update
update_data(product_update) ==
    {k \in DOMAIN product_update : product_update[k] # None}

\* the filter written `if v`: 0 and "" dropped with None
SetField_truthy(product_update, k, old) ==
    IF product_update[k] = None THEN old
    ELSE IF k \in {"price", "stock_quantity"}
         THEN (IF TheValue(product_update[k]) = 0 THEN old ELSE TheValue(product_update[k]))
         ELSE (IF TheValue(product_update[k]) = "" THEN old ELSE TheValue(product_update[k]))
SetField(product_update, k, old) ==
    IF product_update[k] # None THEN TheValue(product_update[k]) ELSE old

\* {"$set": update_data} on one document
set_update_data(product, product_update) ==
    [id |-> product.id,
     name |-> SetField(product_update, "name", product.name),
     description |-> SetField(product_update, "description", product.description),
     price |-> SetField(product_update, "price", product.price),
     stock_quantity |-> SetField(product_update, "stock_quantity", product.stock_quantity),
     image_url |-> SetField(product_update, "image_url", product.image_url),
     created_at |-> product.created_at]

update_product(p, credentials, product_id, product_update) ==
    /\ Arrive(p, [op |-> "update_product", credentials |-> credentials,
                  product_id |-> product_id, product_update |-> product_update],
              TRUE,
              IF update_data(product_update) = {}
              THEN [status |-> 400, detail |-> "No update data provided"] ELSE NoResponse,
              "update_product_update_one", NoLocals)
    /\ UNCHANGED store

update_product_update_one(p) ==
    /\ pc[p] = "update_product_update_one"
    /\ LET S == {k \in DOMAIN products : products[k].id = req[p].product_id}
       IN  IF S = {}
           THEN /\ Finish(p, [status |-> 404, detail |-> "Product not found"])
                /\ UNCHANGED products
           ELSE /\ products' = [products EXCEPT
                       ![Min(S)] = set_update_data(@, req[p].product_update)]
                /\ pc' = [pc EXCEPT ![p] = "update_product_find_one"]
                /\ UNCHANGED resp
    /\ UNCHANGED <<users, orders, uuid_products, tokens, now, req, current_user, loc>>

\* updated_product = await db.products.find_one(...); Product(**updated_product)
\* raises TypeError on None: an unhandled exception, a 500.
update_product_find_one(p) ==
    /\ pc[p] = "update_product_find_one"
    /\ LET updated_product == products_find_one(req[p].product_id)
       IN  IF updated_product = NoDoc
           THEN Finish(p, [status |-> 500, detail |-> "Internal Server Error"])
           ELSE Finish(p, [status |-> 200, body |-> updated_product])
    /\ UNCHANGED <<store, req, current_user, loc>>

\* DELETE /products/{product_id}
delete_product(p, credentials, product_id) ==
    /\ Arrive(p, [op |-> "delete_product", credentials |-> credentials,
                  product_id |-> product_id],
              TRUE, NoResponse, "delete_product_delete_one", NoLocals)
    /\ UNCHANGED store

delete_product_delete_one(p) ==
    /\ pc[p] = "delete_product_delete_one"
    /\ LET S == {k \in DOMAIN products : products[k].id = req[p].product_id}
       IN  IF S = {}
           THEN /\ Finish(p, [status |-> 404, detail |-> "Product not found"])
                /\ UNCHANGED products
           ELSE /\ products' = SubSeq(products, 1, Min(S) - 1)
                                \o SubSeq(products, Min(S) + 1, Len(products))
                /\ Finish(p, [status |-> 200,
                              body |-> [message |-> "Product deleted successfully"]])
    /\ UNCHANGED <<users, orders, uuid_products, tokens, now, req, current_user, loc>>

\* ------------------------------------------------------------- inputs
\* Carts of at most two items over the two products of the initial shop.
CartItems == [product_id : {1, 2}, quantity : 1..MaxQty]
Carts == {<<>>} \cup {<<a>> : a \in CartItems} \cup {<<a, b>> : a \in CartItems, b \in CartItems}
OrderCreates == [items : Carts, delivery_address : Addresses]
Token(email) == [sub |-> email, exp |-> ACCESS_TOKEN_EXPIRE_MINUTES, signed |-> TRUE]
\* What a client without SECRET_KEY can build: any payload, no valid signature.
ForgedCredentials == [sub |-> AdminEmail, exp |-> ACCESS_TOKEN_EXPIRE_MINUTES, signed |-> FALSE]

UserCreates ==
    [name : {"Carol"}, email : {AdminEmail, AliceEmail}, password : {"pw1"},
     role : {"user", "admin"}]
UserLogins == [email : {AdminEmail, AliceEmail}, password : {"pw1", "admin123"}]

ProductCreates ==
    {[name |-> "Desk Lamp", description |-> "d3", price |-> 4, stock_quantity |-> 1,
      image_url |-> "img3"]}
ProductUpdates ==
    [name : {None, Some("Renamed")}, description : {None}, price : {None, Some(7)},
     stock_quantity : {None, Some(0)}, image_url : {None}]
OrderUpdates == [status : valid_statuses \cup {"cancelled"}]

\* ------------------------------------------------------------ the shop
UserDoc(id, name, email, role, password) ==
    [id |-> id, name |-> name, email |-> email, role |-> role,
     password |-> get_password_hash(password), created_at |-> 0]

IdleProcs ==
    /\ pc = [p \in Procs |-> "idle"]
    /\ req = [p \in Procs |-> NoRequest]
    /\ current_user = [p \in Procs |-> NoDoc]
    /\ loc = [p \in Procs |-> NoLocals]
    /\ resp = [p \in Procs |-> NoResponse]

\* The running shop at time 0: the default admin (create_default_admin), two
\* customers who have just registered and hold the tokens register returned,
\* and two products created by the admin.
InitShop ==
    /\ now = 0
    /\ users = << UserDoc(1, "Default Admin", AdminEmail, "admin", "admin123"),
                  UserDoc(2, "Alice", AliceEmail, "user", "pw-a"),
                  UserDoc(3, "Bob", BobEmail, "user", "pw-b") >>
    /\ tokens = {Token(AdminEmail), Token(AliceEmail), Token(BobEmail)}
    /\ \E s1 \in 1..MaxStock, s2 \in {1} :
          products = << Product(1, [name |-> "Wireless Headphones", description |-> "d1",
                                    price |-> 3, stock_quantity |-> s1, image_url |-> "img1"]),
                        Product(2, [name |-> "Smart Watch", description |-> "d2",
                                    price |-> 5, stock_quantity |-> s2, image_url |-> "img2"]) >>
    /\ uuid_products = 2
    /\ IdleProcs

\* No order placed yet.
InitRace == InitShop /\ orders = <<>>

\* Bob has placed one order (one Smart Watch) before.
Init ==
    /\ InitShop
    /\ orders = << [id |-> 1, user_id |-> 3, user_name |-> "Bob", user_email |-> BobEmail,
                    items |-> << [product_id |-> 2, product_name |-> "Smart Watch",
                                  price |-> 5, quantity |-> 1] >>,
                    total_amount |-> 5, delivery_address |-> "1 Main St",
                    status |-> "pending", created_at |-> 0] >>

\* The clock: minutes pass between the steps of the calls.
TickMinutes == 15
MaxTime == 45
Tick ==
    /\ now + TickMinutes <= MaxTime
    /\ now' = now + TickMinutes
    /\ UNCHANGED <<users, products, orders, uuid_products, tokens, pc, req,
                   current_user, loc, resp>>

CarolEmail == "carol@shop.com"
\* A token signed with SECRET_KEY whose subject has no user document.
OrphanCredentials ==
    [sub |-> "ghost@shop.com", exp |-> ACCESS_TOKEN_EXPIRE_MINUTES, signed |-> TRUE]

ClockCredentials == tokens \cup {ForgedCredentials, OrphanCredentials}

\* The running shop with time passing: tokens are issued, age and are presented
\* to every endpoint that depends on get_current_user.
NextClock ==
    \/ Tick
    \/ \E p \in ShopProcs :
        \/ register(p, [name |-> "Carol", email |-> CarolEmail, password |-> "pw1",
                        role |-> "user"])
        \/ register_insert_one(p)
        \/ \E pw \in {"pw-a", "pw1"} : login(p, [email |-> AliceEmail, password |-> pw])
        \/ \E c \in ClockCredentials :
              \/ get_me(p, c)
              \/ create_order(p, c, [items |-> << [product_id |-> 1, quantity |-> 1] >>,
                                     delivery_address |-> "1 Main St"])
              \/ get_orders(p, c)
              \/ get_order(p, c, 1)
              \/ update_order_status(p, c, 1, [status |-> "shipped"])
              \/ \E d \in ProductCreates : create_product(p, c, d)
              \/ update_product(p, c, 2, [name |-> None, description |-> None,
                                          price |-> Some(7), stock_quantity |-> None,
                                          image_url |-> None])
              \/ delete_product(p, c, 2)
        \/ create_order_find_one(p)
        \/ create_order_update_one(p)
        \/ create_order_insert_one(p)
        \/ get_orders_find(p)
        \/ get_order_find_one(p)
        \/ update_order_status_update_one(p)
        \/ update_order_status_find_one(p)
        \/ create_product_insert_one(p)
        \/ update_product_update_one(p)
        \/ update_product_find_one(p)
        \/ delete_product_delete_one(p)

SpecClock == Init /\ [][NextClock]_vars

\* Catalog bodies as pydantic accepts them: ProductBase and ProductUpdate
\* declare price: float and stock_quantity: int with no constraint, str fields
\* accept the empty string.
CatalogCreates ==
    {[name |-> "Desk Lamp", description |-> "d3", price |-> 0, stock_quantity |-> 0,
      image_url |-> "img3"],
     [name |-> "", description |-> "d3", price |-> -1, stock_quantity |-> -2,
      image_url |-> "img3"]}
CatalogUpdates ==
    [name : {None, Some("")}, description : {None}, price : {None, Some(0), Some(-1)},
     stock_quantity : {None, Some(0), Some(-2)}, image_url : {None}]

\* The administrator's catalog calls only.
NextCatalog ==
    \E p \in ShopProcs :
        \/ \E d \in CatalogCreates : create_product(p, Token(AdminEmail), d)
        \/ create_product_insert_one(p)
        \/ \E id \in {1, 3}, d \in CatalogUpdates :
               update_product(p, Token(AdminEmail), id, d)
        \/ update_product_update_one(p)
        \/ update_product_find_one(p)
        \/ \E id \in {1, 3} : delete_product(p, Token(AdminEmail), id)
        \/ delete_product_delete_one(p)

SpecCatalog == InitRace /\ [][NextCatalog]_vars

\* Carts as pydantic accepts them: CartItem declares quantity: int with no
\* constraint, so zero and negative quantities reach create_order.
IntCartItems == [product_id : {1}, quantity : {-1, 0, 1}]
IntCarts == {<<a>> : a \in IntCartItems} \cup {<<a, b>> : a \in IntCartItems, b \in IntCartItems}
IntOrderCreates == [items : IntCarts, delivery_address : Addresses]

NextCart ==
    \E p \in ShopProcs :
        \/ \E d \in IntOrderCreates : create_order(p, Token(AliceEmail), d)
        \/ create_order_find_one(p)
        \/ create_order_update_one(p)
        \/ create_order_insert_one(p)

SpecCart == InitRace /\ [][NextCart]_vars

\* The public product list next to the administrator's price changes and
\* deletions.
PriceBounds == {None, Some(0), Some(3), Some(5)}

NextList ==
    \E p \in ShopProcs :
        \/ \E search \in {None, Some("")}, min_price \in PriceBounds,
              max_price \in PriceBounds :
               get_products(p, search, min_price, max_price)
        \/ \E price \in {0, 5} :
               update_product(p, Token(AdminEmail), 1,
                              [name |-> None, description |-> None, price |-> Some(price),
                               stock_quantity |-> None, image_url |-> None])
        \/ update_product_update_one(p)
        \/ update_product_find_one(p)
        \/ delete_product(p, Token(AdminEmail), 2)
        \/ delete_product_delete_one(p)

SpecList == InitRace /\ [][NextList]_vars

\* Concurrent placeOrder calls only, every cart quantity >= 1.
NextRace ==
    \E p \in ShopProcs :
        \/ \E d \in OrderCreates : create_order(p, Token(AliceEmail), d)
        \/ create_order_find_one(p)
        \/ create_order_update_one(p)
        \/ create_order_insert_one(p)

SpecRace == InitRace /\ [][NextRace]_vars

\* The shop: orders placed while the admin works on the catalog and on the
\* orders, and while orders are read.
Next ==
    \E p \in ShopProcs :
        \/ \E c \in {Token(AliceEmail), Token(AdminEmail)}, d \in OrderCreates :
              create_order(p, c, d)
        \/ create_order_find_one(p)
        \/ create_order_update_one(p)
        \/ create_order_insert_one(p)
        \/ \E c \in tokens : get_orders(p, c)
        \/ get_orders_find(p)
        \/ \E c \in tokens, id \in {1, 2} : get_order(p, c, id)
        \/ get_order_find_one(p)
        \/ \E c \in {Token(AliceEmail), Token(AdminEmail)}, id \in {1, 2}, u \in OrderUpdates :
              update_order_status(p, c, id, u)
        \/ update_order_status_update_one(p)
        \/ update_order_status_find_one(p)
        \/ \E c \in {Token(AliceEmail), Token(AdminEmail)}, f \in ProductCreates :
              create_product(p, c, f)
        \/ create_product_insert_one(p)
        \/ \E c \in {Token(AliceEmail), Token(AdminEmail)}, id \in {1, 3}, u \in ProductUpdates :
              update_product(p, c, id, u)
        \/ update_product_update_one(p)
        \/ update_product_find_one(p)
        \/ \E c \in {Token(AliceEmail), Token(AdminEmail)}, id \in {1, 3} :
              delete_product(p, c, id)
        \/ delete_product_delete_one(p)

Spec == Init /\ [][Next]_vars

\* The credential store from an empty database: registrations, logins and
\* the seeding of the default admin, three at a time.
InitEmpty ==
    /\ now = 0
    /\ users = <<>>
    /\ products = <<>>
    /\ orders = <<>>
    /\ tokens = {}
    /\ uuid_products = 0
    /\ IdleProcs

NextAuth ==
    \E p \in Procs :
        \/ \E u \in UserCreates : register(p, u)
        \/ register_insert_one(p)
        \/ \E u \in UserLogins : login(p, u)
        \/ \E c \in tokens \cup {ForgedCredentials} : get_me(p, c)
        \/ create_default_admin(p)
        \/ create_default_admin_insert_one(p)

SpecAuth == InitEmpty /\ [][NextAuth]_vars

\* The seeding functions called one run after the other, next to the auth
\* endpoints: a run of a function starts when no run of it is in flight.
NoRunInFlight(op) == \A q \in Procs : req[q].op = op => pc[q] = "done"

NextSeed ==
    \E p \in Procs :
        \/ NoRunInFlight("create_default_admin") /\ create_default_admin(p)
        \/ create_default_admin_insert_one(p)
        \/ NoRunInFlight("create_sample_products") /\ create_sample_products(p)
        \/ create_sample_products_find_one(p)
        \/ create_sample_products_insert_one(p)
        \/ register(p, [name |-> "Alice", email |-> AliceEmail, password |-> "pw1",
                        role |-> "user"])
        \/ register_insert_one(p)
        \/ \E u \in UserLogins : login(p, u)
        \/ \E c \in tokens \cup {ForgedCredentials} : get_me(p, c)

SpecSeed == InitEmpty /\ [][NextSeed]_vars

\* The service starting on an empty database and serving the auth endpoints.
\* The event loop runs the startup and every coroutine that is ready; whether
\* a client ever sends a request is not the program's to decide.
NextStartup ==
    \E p \in Procs :
        \/ lifespan(p)
        \/ \E u \in UserCreates : register(p, u)
        \/ register_insert_one(p)
        \/ \E u \in UserLogins : login(p, u)
        \/ \E c \in tokens \cup {ForgedCredentials} : get_me(p, c)

SpecStartup ==
    /\ InitEmpty
    /\ [][NextStartup]_vars
    /\ WF_vars(\E p \in Procs : lifespan(p))
    /\ WF_vars(\E p \in Procs : register_insert_one(p))

\* ================================================================ claims
CreateOrderDone(p) == req[p].op = "create_order" /\ pc[p] = "done"
Identity(credentials) == users_find_one(credentials.sub)

RECURSIVE SumItems(_)
SumItems(items) ==
    IF items = <<>> THEN 0
    ELSE items[1].price * items[1].quantity + SumItems(Tail(items))

\* C1: with every cart quantity >= 1 and no admin edit of stock, no product's
\* stock_quantity is negative in any reachable state, for every interleaving
\* of concurrent placeOrder calls.  (Stated; the code violates it.)
C1_StockNeverNegative ==
    \A k \in DOMAIN products : products[k].stock_quantity >= 0

\* C2: a placeOrder call that failed with InsufficientStock or ProductNotFound
\* applied no stock change, not even for the items before the failing one.
\* (Stated; the code violates it.)
C2_FailedOrderChangesNoStock ==
    \A p \in Procs :
        (CreateOrderDone(p) /\ resp[p].status \in {400, 404})
            => \A k \in DOMAIN loc[p].applied : loc[p].applied[k].delta = 0

\* C3: every persisted order's total_amount is the sum of price * quantity
\* over its items, and each item carries the name and the price of the
\* product as stored when that cart item was processed.
C3_TotalIsSum ==
    \A k \in DOMAIN orders : orders[k].total_amount = SumItems(orders[k].items)

C3_SnapshotStep ==
    \A p \in Procs :
        /\ (pc[p] = "create_order_find_one" /\ pc'[p] = "create_order_update_one")
              => LET item == req[p].order_data.items[loc[p].i]
                     product == products_find_one(item.product_id)
                 IN  loc'[p].order_items =
                        Append(loc[p].order_items,
                               [product_id |-> item.product_id,
                                product_name |-> product.name,
                                price |-> product.price,
                                quantity |-> item.quantity])
        /\ (pc[p] = "create_order_insert_one" /\ pc'[p] = "done")
              => /\ Len(orders') = Len(orders) + 1
                 /\ orders'[Len(orders')].items = loc[p].order_items

C3_TotalAmount == []C3_TotalIsSum /\ [][C3_SnapshotStep]_vars

\* An order of two units whose product has been repriced since.
C3_Witness ==
    \E k \in DOMAIN orders : \E n \in DOMAIN orders[k].items :
        LET it == orders[k].items[n]
            product == products_find_one(it.product_id)
        IN  /\ it.quantity = 2
            /\ product # NoDoc
            /\ product.price # it.price

\* C4: a successful placeOrder call has applied, for each cart item, a stock
\* change of exactly minus the ordered quantity, also when deleteProduct or
\* updateProduct ran between its read and its decrement.  (Stated; the code
\* violates it.)
C4_SuccessfulOrderDecrementsExactly ==
    \A p \in Procs :
        (CreateOrderDone(p) /\ resp[p].status = 200)
            => /\ Len(loc[p].applied) = Len(req[p].order_data.items)
               /\ \A k \in DOMAIN loc[p].applied :
                     loc[p].applied[k].delta = -req[p].order_data.items[k].quantity

\* C5: a step of a placeOrder call changes db.orders only when it is the
\* call's successful end, after every cart item was processed; it then adds
\* exactly one order, pending, with the caller's id, name and email.
C5_Step ==
    \A p \in Procs :
        (req'[p].op = "create_order" /\ pc'[p] # pc[p])
            => IF pc'[p] = "done" /\ resp'[p].status = 200
               THEN LET order == resp'[p].body
                        caller == Identity(req'[p].credentials)
                    IN  /\ orders' = Append(orders, order)
                        /\ Len(order.items) = Len(req'[p].order_data.items)
                        /\ order.status = "pending"
                        /\ order.user_id = caller.id
                        /\ order.user_name = caller.name
                        /\ order.user_email = caller.email
               ELSE orders' = orders

C5_OrderPersistedOnlyOnSuccess == [][C5_Step]_vars

\* One call has succeeded and one has failed on stock.
C5_Witness ==
    \E p \in Procs, q \in Procs :
        /\ CreateOrderDone(p) /\ resp[p].status = 200
        /\ resp[p].body.items # <<>>
        /\ CreateOrderDone(q) /\ resp[q].status = 400
        /\ Len(orders) = 2

\* C6: an admin-only operation called with the token of a user whose role is
\* not admin ends at once with 403 and leaves products and orders unchanged,
\* whatever the payload; a finished call does nothing more.
AdminOps == {"create_product", "update_product", "delete_product", "update_order_status"}

C6_Step ==
    \A p \in Procs :
        /\ ( /\ pc[p] = "idle" /\ pc'[p] # "idle"
             /\ req'[p].op \in AdminOps
             /\ jwt_decode_ok(req'[p].credentials)
             /\ Identity(req'[p].credentials) # NoDoc
             /\ Identity(req'[p].credentials).role # "admin" )
              => /\ pc'[p] = "done"
                 /\ resp'[p].status = 403
                 /\ products' = products
                 /\ orders' = orders
                 /\ uuid_products' = uuid_products
        /\ pc[p] = "done" => (pc'[p] = "done" /\ resp'[p] = resp[p])

C6_NonAdminForbidden == [][C6_Step]_vars

\* A customer's updateProduct with an empty update set and an unknown id: 403.
C6_Witness ==
    \E p \in Procs :
        /\ pc[p] = "done"
        /\ req[p].op = "update_product"
        /\ req[p].product_id = 3
        /\ products_find_one(3) = NoDoc
        /\ update_data(req[p].product_update) = {}
        /\ current_user[p].role = "user"
        /\ resp[p].status = 403

\* C7: the user record a register call inserts has role user, whatever the
\* request contains.  (Stated; the code violates it.)
C7_Step ==
    \A p \in Procs :
        (pc[p] = "register_insert_one" /\ pc'[p] = "done")
            => users'[Len(users')].role = "user"

C7_RegisterStoresRoleUser == [][C7_Step]_vars

\* C8: no two user records have the same email.  (Stated; the code violates it.)
C8_EmailUnique ==
    \A i \in DOMAIN users, j \in DOMAIN users :
        users[i].email = users[j].email => i = j

\* C9: listOrders answers a caller who is not admin with exactly the
\* persisted orders whose user_id is the caller's id, an admin with every
\* persisted order, and changes nothing.
C9_Step ==
    \A p \in Procs :
        (pc[p] = "get_orders_find" /\ pc'[p] = "done")
            => LET caller == Identity(req[p].credentials)
                   body == resp'[p].body
                   own == {k \in DOMAIN orders : orders[k].user_id = caller.id}
               IN  /\ resp'[p].status = 200
                   /\ caller.role = "admin" => body = orders
                   /\ caller.role # "admin" =>
                        /\ \A n \in DOMAIN body : body[n].user_id = caller.id
                        /\ Len(body) = Cardinality(own)
                        /\ \A k \in own : \E n \in DOMAIN body : body[n] = orders[k]
                   /\ UNCHANGED store

C9_ListOrdersScoped == [][C9_Step]_vars

\* Alice lists her one order while the store holds Bob's order too.
C9_Witness ==
    \E p \in Procs :
        /\ pc[p] = "done"
        /\ req[p].op = "get_orders"
        /\ req[p].credentials.sub = AliceEmail
        /\ resp[p].status = 200
        /\ Len(resp[p].body) = 1
        /\ Len(orders) = 2

\* C10: getOrder returns an order only to an admin or to its owner, answers
\* 403 for an existing order asked for by anyone else, and 404 for an id
\* that is not in the store, whoever asks.
C10_Step ==
    \A p \in Procs :
        (pc[p] = "get_order_find_one" /\ pc'[p] = "done")
            => LET caller == Identity(req[p].credentials)
                   found == {k \in DOMAIN orders : orders[k].id = req[p].order_id}
               IN  /\ found = {} => resp'[p].status = 404
                   /\ \A k \in found :
                        IF caller.role = "admin" \/ orders[k].user_id = caller.id
                        THEN resp'[p].status = 200 /\ resp'[p].body = orders[k]
                        ELSE resp'[p].status = 403
                   /\ UNCHANGED store

C10_GetOrderOwnerOrAdmin == [][C10_Step]_vars

\* Alice was refused Bob's order, and an unknown id was answered 404.
C10_Witness ==
    \E p \in Procs, q \in Procs :
        /\ pc[p] = "done" /\ req[p].op = "get_order"
        /\ req[p].credentials.sub = AliceEmail
        /\ orders_find_one(req[p].order_id) # NoDoc
        /\ orders_find_one(req[p].order_id).user_id = 3
        /\ resp[p].status = 403
        /\ pc[q] = "done" /\ req[q].op = "get_order"
        /\ orders_find_one(req[q].order_id) = NoDoc
        /\ resp[q].status = 404

\* C11: a login with an email that is not registered and a login with a
\* registered email and a wrong password end in the same response (status,
\* message, headers), issue no token and change no state.
InvalidCredentials ==
    [status |-> 401, detail |-> "Incorrect email or password",
     headers |-> "WWW-Authenticate: Bearer"]

Registered(email) == \E k \in DOMAIN users : users[k].email = email

WrongPassword(user_credentials) ==
    \E k \in DOMAIN users :
        /\ users[k].email = user_credentials.email
        /\ \A j \in DOMAIN users : users[j].email = user_credentials.email => k <= j
        /\ users[k].password # <<"bcrypt", user_credentials.password>>

C11_Step ==
    \A p \in Procs :
        ( /\ pc[p] = "idle" /\ pc'[p] # "idle" /\ req'[p].op = "login"
          /\ \/ ~Registered(req'[p].user_credentials.email)
             \/ WrongPassword(req'[p].user_credentials) )
            => /\ pc'[p] = "done"
               /\ resp'[p] = InvalidCredentials
               /\ UNCHANGED store

C11_LoginFailuresIdentical == [][C11_Step]_vars

\* One login failed on an unknown email, one on a wrong password: same response.
C11_Witness ==
    \E p \in Procs, q \in Procs :
        /\ pc[p] = "done" /\ req[p].op = "login"
        /\ ~Registered(req[p].user_credentials.email)
        /\ pc[q] = "done" /\ req[q].op = "login"
        /\ WrongPassword(req[q].user_credentials)
        /\ resp[p].status = 401
        /\ resp[q] = resp[p]

\* C12: a register call whose email is already stored by an earlier, completed
\* register call fails with "Email already registered", leaves the users
\* collection as it was (first record, hash and role kept), and the token the
\* first call returned still authenticates as the first user.
FirstRegistered(q, email) ==
    /\ pc[q] = "done" /\ req[q].op = "register" /\ resp[q].status = 200
    /\ req[q].user.email = email
    /\ \E k \in DOMAIN users :
          /\ users[k].id = resp[q].body.user.id
          /\ \A j \in DOMAIN users : users[j].email = email => k <= j

C12_Step ==
    \A p \in Procs :
        ( /\ pc[p] = "idle" /\ pc'[p] # "idle" /\ req'[p].op = "register"
          /\ Registered(req'[p].user.email) )
            => /\ pc'[p] = "done"
               /\ resp'[p] = [status |-> 400, detail |-> "Email already registered"]
               /\ UNCHANGED store
               /\ \A q \in Procs :
                     FirstRegistered(q, req'[p].user.email)
                       => /\ get_current_user(resp[q].body.access_token)' # NoDoc
                          /\ get_current_user(resp[q].body.access_token)'.id
                                 = resp[q].body.user.id
                          /\ get_current_user(resp[q].body.access_token)'.role
                                 = req[q].user.role
                          /\ get_current_user(resp[q].body.access_token)'.password
                                 = <<"bcrypt", req[q].user.password>>

C12_DuplicateRegisterRejected == [][C12_Step]_vars

\* A register was rejected for an email that a finished register stored, and
\* the first call's token still resolves to the first record.
C12_Witness ==
    \E p \in Procs, q \in Procs :
        /\ pc[p] = "done" /\ req[p].op = "register" /\ resp[p].status = 400
        /\ FirstRegistered(q, req[p].user.email)
        /\ get_current_user(resp[q].body.access_token) # NoDoc
        /\ get_current_user(resp[q].body.access_token).id = resp[q].body.user.id
        /\ Len(users) = 1

\* C14: in every reachable state every persisted order has status pending,
\* shipped or delivered; an administrator's updateOrderStatus with any other
\* value ends 400 "Invalid status" with the store unchanged, and one that names
\* an id no order has ends 404 with nothing changed.
IsAdminCall(credentials) ==
    /\ jwt_decode_ok(credentials)
    /\ Registered(credentials.sub)
    /\ Identity(credentials).role = "admin"

C14_StatusInSet ==
    \A k \in DOMAIN orders : orders[k].status \in {"pending", "shipped", "delivered"}

C14_Step ==
    \A p \in ShopProcs :
        /\ ( /\ pc[p] = "idle" /\ pc'[p] # "idle"
             /\ req'[p].op = "update_order_status"
             /\ IsAdminCall(req'[p].credentials)
             /\ req'[p].status_update.status \notin {"pending", "shipped", "delivered"} )
               => /\ pc'[p] = "done"
                  /\ resp'[p] = [status |-> 400, detail |-> "Invalid status"]
                  /\ UNCHANGED store
        /\ ( /\ pc[p] = "update_order_status_update_one" /\ pc'[p] # pc[p]
             /\ \A k \in DOMAIN orders : orders[k].id # req[p].order_id )
               => /\ pc'[p] = "done"
                  /\ resp'[p] = [status |-> 404, detail |-> "Order not found"]
                  /\ UNCHANGED store

C14_OrderStatusValid == []C14_StatusInSet /\ [][C14_Step]_vars

\* One administrator call was refused for its status value, another for its
\* order id, and the stored order still has its first status.
C14_Witness ==
    \E p \in ShopProcs, q \in ShopProcs :
        /\ pc[p] = "done" /\ req[p].op = "update_order_status"
        /\ resp[p] = [status |-> 400, detail |-> "Invalid status"]
        /\ req[p].order_id = 1 /\ req[p].status_update.status = "cancelled"
        /\ pc[q] = "done" /\ req[q].op = "update_order_status"
        /\ resp[q] = [status |-> 404, detail |-> "Order not found"]
        /\ orders[1].status = "pending"

\* C15: a persisted order is never removed, and its id, user fields, items,
\* total_amount, delivery_address and created_at never change; updateProduct
\* and deleteProduct leave the orders collection as it is; updateOrderStatus
\* changes the status of the one order it names and nothing else.
C15_Step ==
    /\ Len(orders') >= Len(orders)
    /\ \A k \in DOMAIN orders :
          orders'[k] = [orders[k] EXCEPT !.status = orders'[k].status]
    /\ \A p \in ShopProcs :
          /\ (pc'[p] # pc[p] /\ req'[p].op \in {"update_product", "delete_product"})
                => orders' = orders
          /\ (pc'[p] # pc[p] /\ req'[p].op = "update_order_status")
                => /\ Len(orders') = Len(orders)
                   /\ \A k \in DOMAIN orders :
                         orders[k].id # req'[p].order_id => orders'[k] = orders[k]
                   /\ UNCHANGED <<users, products>>

C15_OrdersImmutable == [][C15_Step]_vars

\* A second order was placed and the first one's status was changed: the
\* second is still pending and the first keeps every other field.
C15_Witness ==
    /\ Len(orders) = 2
    /\ orders[1].status = "delivered"
    /\ orders[2].status = "pending"
    /\ orders[1].total_amount = 5 /\ orders[1].user_email = BobEmail
    /\ \E p \in ShopProcs :
          pc[p] = "done" /\ req[p].op = "update_order_status" /\ resp[p].status = 200

\* C13: a successful updateProduct by an administrator changes, on the stored
\* product, only the fields the request provided, each set to the provided
\* value (0 and the empty string included); fields not provided, id,
\* created_at and every other product stay as they were; the product returned
\* is the stored product after the update.
ProductFields == {"name", "description", "price", "stock_quantity", "image_url"}

C13_Step ==
    \A p \in ShopProcs :
        /\ ( pc[p] = "update_product_update_one"
               /\ pc'[p] = "update_product_find_one" )
               => /\ Len(products') = Len(products)
                  /\ \E k \in DOMAIN products :
                        /\ products[k].id = req[p].product_id
                        /\ \A j \in DOMAIN products : j # k => products'[j] = products[j]
                        /\ products'[k].id = products[k].id
                        /\ products'[k].created_at = products[k].created_at
                        /\ \A f \in ProductFields :
                              IF req[p].product_update[f] = {}
                              THEN products'[k][f] = products[k][f]
                              ELSE products'[k][f] \in req[p].product_update[f]
                  /\ UNCHANGED <<users, orders>>
        /\ ( pc[p] = "update_product_find_one" /\ pc'[p] = "done"
               /\ resp'[p].status = 200 )
               => /\ products' = products
                  /\ resp'[p].body.id = req[p].product_id
                  /\ \E k \in DOMAIN products : products[k] = resp'[p].body

C13_UpdateChangesOnlyProvided == [][C13_Step]_vars

\* An update that set price 0 and the empty name, and no stock, has returned:
\* both values are stored and returned, the stock is the one the shop began with.
C13_Witness ==
    \E p \in ShopProcs :
        /\ pc[p] = "done" /\ req[p].op = "update_product" /\ resp[p].status = 200
        /\ req[p].product_id = 1
        /\ req[p].product_update.price = {0}
        /\ req[p].product_update.name = {""}
        /\ req[p].product_update.stock_quantity = {}
        /\ resp[p].body.price = 0 /\ resp[p].body.name = ""
        /\ resp[p].body.stock_quantity >= 1
        /\ resp[p].body.description = "d1" /\ resp[p].body.created_at = 0
        /\ products[1] = resp[p].body

\* C20: no createProduct or updateProduct call stores a product with a negative
\* price or a negative stock_quantity.
C20_NoNegativeStored ==
    \A k \in DOMAIN products :
        products[k].price >= 0 /\ products[k].stock_quantity >= 0

\* C19: placeOrder never processes a cart item whose quantity is zero or
\* negative: no placeOrder call has raised a stock, every item of a persisted
\* order has quantity >= 1, and every persisted total_amount is >= 0.
C19_QuantityPositive ==
    /\ \A p \in ShopProcs :
          req[p].op = "create_order"
            => \A k \in DOMAIN loc[p].applied : loc[p].applied[k].delta <= 0
    /\ \A k \in DOMAIN orders :
          /\ orders[k].total_amount >= 0
          /\ \A n \in DOMAIN orders[k].items : orders[k].items[n].quantity >= 1

\* C16: every token issued by register or login carries the email as its
\* subject and expires 30 minutes after it was issued, and no step renews or
\* removes a token; a token is accepted only before its expiry, with a good
\* signature, and while a user with its subject email is stored; with any
\* other token every authenticated operation ends 401 and changes no state.
AuthenticatedOps ==
    {"get_me", "create_order", "get_orders", "get_order", "update_order_status",
     "create_product", "update_product", "delete_product"}

IssuedTo(p) ==
    IF req'[p].op = "register" THEN req'[p].user.email
    ELSE req'[p].user_credentials.email

C16_Issue ==
    /\ tokens \subseteq tokens'
    /\ tokens' # tokens =>
          \E p \in ShopProcs :
              /\ pc'[p] = "done" /\ pc[p] # "done"
              /\ req'[p].op \in {"register", "login"}
              /\ resp'[p].status = 200
              /\ tokens' = tokens \cup {resp'[p].body.access_token}
              /\ resp'[p].body.access_token.sub = IssuedTo(p)
              /\ resp'[p].body.access_token.exp = now + 30
              /\ resp'[p].body.access_token.signed
    /\ \A p \in ShopProcs :
          ( pc'[p] = "done" /\ pc[p] # "done" /\ resp'[p].status = 200
            /\ req'[p].op \in {"register", "login"} )
              => /\ resp'[p].body.access_token \in tokens'
                 /\ resp'[p].body.access_token.exp = now + 30
                 /\ resp'[p].body.access_token.sub = IssuedTo(p)

C16_Accept ==
    \A p \in ShopProcs :
        ( pc[p] = "idle" /\ pc'[p] # "idle" /\ req'[p].op \in AuthenticatedOps )
          => LET c == req'[p].credentials
                 valid == c.signed /\ now < c.exp /\ Registered(c.sub)
             IN  IF valid
                 THEN resp'[p].status # 401
                 ELSE /\ pc'[p] = "done"
                      /\ resp'[p] = [status |-> 401,
                                     detail |-> "Could not validate credentials"]
                      /\ UNCHANGED store

C16_TokenLifetime == [][C16_Issue /\ C16_Accept]_vars

\* A token that login issued at minute 15 was presented at minute 45 and
\* refused, and nothing of the shop has changed since the start.
C16_Witness ==
    \E p \in ShopProcs, q \in ShopProcs :
        /\ pc[q] = "done" /\ req[q].op = "login" /\ resp[q].status = 200
        /\ resp[q].body.access_token.exp = 45
        /\ pc[p] = "done" /\ req[p].op \in AuthenticatedOps \ {"get_me"}
        /\ req[p].credentials = resp[q].body.access_token
        /\ resp[p].status = 401
        /\ now = 45
        /\ Len(orders) = 1 /\ Len(products) = 2

\* C17: seeding is idempotent: a run of create_default_admin or of
\* create_sample_products that starts after an earlier run of it has completed
\* changes nothing, so the store never holds two users with the email
\* admin@shop.com nor two products with the same name.
C17_Step ==
    \A p \in Procs :
        ( /\ pc'[p] # pc[p]
          /\ req'[p].op \in {"create_default_admin", "create_sample_products"}
          /\ \E q \in Procs \ {p} : req[q].op = req'[p].op /\ pc[q] = "done" )
            => UNCHANGED <<users, products, orders, uuid_products, tokens>>

C17_Unique ==
    /\ Cardinality({k \in DOMAIN users : users[k].email = "admin@shop.com"}) <= 1
    /\ \A j \in DOMAIN products, k \in DOMAIN products :
          products[j].name = products[k].name => j = k

C17_SeedingIdempotent == []C17_Unique /\ [][C17_Step]_vars

\* Two runs of create_sample_products and one of create_default_admin have
\* completed: five products, one administrator.
C17_Witness ==
    \E p \in Procs, q \in Procs, r \in Procs :
        /\ p # q
        /\ req[p].op = "create_sample_products" /\ pc[p] = "done"
        /\ req[q].op = "create_sample_products" /\ pc[q] = "done"
        /\ req[r].op = "create_default_admin" /\ pc[r] = "done"
        /\ Len(products) = 5
        /\ Cardinality({k \in DOMAIN users : users[k].email = "admin@shop.com"}) = 1

\* C18: once the service has started, the store eventually holds the default
\* administrator (admin@shop.com, password admin123, role admin) and the five
\* sample products, so that a login with those credentials succeeds.
Started == \E p \in Procs : pc[p] = "lifespan_yield"

Seeded ==
    /\ \E k \in DOMAIN users :
          /\ users[k].email = "admin@shop.com"
          /\ users[k].role = "admin"
          /\ users[k].password = <<"bcrypt", "admin123">>
    /\ \A i \in DOMAIN sample_products :
          \E k \in DOMAIN products : products[k].name = sample_products[i].name

C18_StartupSeeds == Started ~> Seeded

\* C21: listProducts returns exactly the stored products, in stored order,
\* whose price lies between the bounds given, both inclusive, a bound that is
\* not given not applied and a bound of 0 applied; with no filter it returns
\* every stored product; it takes no credentials and changes no state.
InBounds(product, min_price, max_price) ==
    /\ \A m \in min_price : m <= product.price
    /\ \A m \in max_price : product.price <= m

RECURSIVE Within(_, _, _)
Within(seq, min_price, max_price) ==
    IF seq = <<>> THEN <<>>
    ELSE IF InBounds(Head(seq), min_price, max_price)
         THEN <<Head(seq)>> \o Within(Tail(seq), min_price, max_price)
         ELSE Within(Tail(seq), min_price, max_price)

C21_Step ==
    \A p \in ShopProcs :
        ( pc[p] = "idle" /\ pc'[p] # "idle" /\ req'[p].op = "get_products" )
          => /\ pc'[p] = "done"
             /\ resp'[p].status = 200
             /\ resp'[p].body = Within(products, req'[p].min_price, req'[p].max_price)
             /\ (req'[p].min_price = {} /\ req'[p].max_price = {})
                   => resp'[p].body = products
             /\ "credentials" \notin DOMAIN req'[p]
             /\ UNCHANGED store

C21_ListProductsPriceBounds == [][C21_Step]_vars

\* Listed with bounds 0 and 3 while the stored prices are 3 and 5: the product
\* priced at the upper bound is returned, the other is not.
C21_Witness ==
    \E p \in ShopProcs :
        /\ pc[p] = "done" /\ req[p].op = "get_products"
        /\ req[p].min_price = {0} /\ req[p].max_price = {3}
        /\ Len(products) = 2 /\ products[1].price = 3 /\ products[2].price = 5
        /\ resp[p].body = << products[1] >>

\* C22: placeOrder walks the cart in input order and reads each product's
\* stock as it is at that turn, after the decrements of the earlier items: the
\* call fails on the first item, in input order, whose product is missing
\* (404 naming the id) or whose quantity exceeds the stock left (400 naming
\* the product), and the items of a successful order are the cart's items in
\* the cart's order.
SameItems(order_items, cart, n) ==
    /\ Len(order_items) = n
    /\ \A k \in 1..n :
          /\ order_items[k].product_id = cart[k].product_id
          /\ order_items[k].quantity = cart[k].quantity

C22_InLoop ==
    \A p \in ShopProcs :
        pc[p] = "create_order_find_one"
          => /\ loc[p].i \in 1..Len(req[p].order_data.items)
             /\ Len(loc[p].applied) = loc[p].i - 1
             /\ SameItems(loc[p].order_items, req[p].order_data.items, loc[p].i - 1)

C22_Sequential ==
    \A p \in ShopProcs :
        ( CreateOrderDone(p) /\ resp[p].status = 200
          /\ \A q \in ShopProcs \ {p} : pc[q] = "idle" )
            => \A k \in DOMAIN products : products[k].stock_quantity >= 0

C22_Step ==
    \A p \in ShopProcs :
        /\ ( pc[p] = "create_order_find_one" /\ pc'[p] # pc[p] )
              => LET item == req[p].order_data.items[loc[p].i]
                     S == {k \in DOMAIN products : products[k].id = item.product_id}
                 IN  IF S = {}
                     THEN /\ pc'[p] = "done"
                          /\ resp'[p] = [status |-> 404,
                                 detail |-> <<"Product not found", item.product_id>>]
                     ELSE IF \E k \in S : products[k].stock_quantity < item.quantity
                     THEN /\ pc'[p] = "done"
                          /\ resp'[p].status = 400
                          /\ \E k \in S : resp'[p].detail =
                                 <<"Insufficient stock for", products[k].name>>
                     ELSE /\ pc'[p] = "create_order_update_one"
                          /\ SameItems(loc'[p].order_items, req[p].order_data.items,
                                       loc[p].i)
        /\ ( pc[p] = "create_order_update_one" /\ pc'[p] # pc[p] )
              => LET item == req[p].order_data.items[loc[p].i]
                 IN  \A k \in DOMAIN products :
                        products'[k].stock_quantity =
                            IF products[k].id = item.product_id
                            THEN products[k].stock_quantity - item.quantity
                            ELSE products[k].stock_quantity
        /\ ( pc[p] = "create_order_insert_one" /\ pc'[p] = "done" )
              => /\ resp'[p].status = 200
                 /\ SameItems(resp'[p].body.items, req[p].order_data.items,
                              Len(req[p].order_data.items))

C22_CartWalkedInOrder == [](C22_InLoop /\ C22_Sequential) /\ [][C22_Step]_vars

\* One call alone, its cart naming product 1 twice with quantity 1 each while
\* one unit was in stock: the first item was taken, the second was refused.
C22_Witness ==
    \E p \in ShopProcs :
        /\ CreateOrderDone(p)
        /\ \A q \in ShopProcs \ {p} : pc[q] = "idle"
        /\ req[p].order_data.items = << [product_id |-> 1, quantity |-> 1],
                                        [product_id |-> 1, quantity |-> 1] >>
        /\ resp[p] = [status |-> 400,
                      detail |-> <<"Insufficient stock for", "Wireless Headphones">>]
        /\ loc[p].i = 2
        /\ loc[p].applied = << [product_id |-> 1, delta |-> -1] >>
        /\ products[1].stock_quantity = 0

\* C23: status transitions are unrestricted: for an existing order, whatever
\* its current status, an administrator's updateOrderStatus with pending,
\* shipped or delivered is not refused, sets the status to that value and ends
\* 200; this holds from delivered back to pending and when the value is the
\* current status.
C23_Step ==
    \A p \in ShopProcs :
        /\ ( /\ pc[p] = "idle" /\ pc'[p] # "idle"
             /\ req'[p].op = "update_order_status"
             /\ IsAdminCall(req'[p].credentials)
             /\ req'[p].status_update.status \in {"pending", "shipped", "delivered"} )
               => pc'[p] = "update_order_status_update_one"
        /\ ( /\ pc[p] = "update_order_status_update_one" /\ pc'[p] # pc[p]
             /\ \E k \in DOMAIN orders : orders[k].id = req[p].order_id )
               => /\ pc'[p] = "update_order_status_find_one"
                  /\ \A k \in DOMAIN orders :
                        orders[k].id = req[p].order_id
                          => orders'[k].status = req[p].status_update.status
        /\ ( pc[p] = "update_order_status_find_one" /\ pc'[p] # pc[p] )
               => /\ pc'[p] = "done"
                  /\ resp'[p].status = 200
                  /\ resp'[p].body.id = req[p].order_id

C23_Done ==
    \A p \in ShopProcs :
        ( /\ pc[p] = "done" /\ req[p].op = "update_order_status"
          /\ IsAdminCall(req[p].credentials)
          /\ req[p].status_update.status \in {"pending", "shipped", "delivered"}
          /\ req[p].order_id = 1 )
            => resp[p].status = 200

C23_AnyStatusFromAny == []C23_Done /\ [][C23_Step]_vars

\* The order was set to delivered by one call and back to pending by another,
\* both answered 200.
C23_Witness ==
    \E p \in ShopProcs, q \in ShopProcs :
        /\ pc[q] = "done" /\ req[q].op = "update_order_status" /\ resp[q].status = 200
        /\ req[q].order_id = 1 /\ resp[q].body.status = "delivered"
        /\ pc[p] = "done" /\ req[p].op = "update_order_status" /\ resp[p].status = 200
        /\ req[p].order_id = 1 /\ req[p].status_update.status = "pending"
        /\ resp[p].body.status = "pending"
        /\ orders[1].status = "pending"

\* C24: an updateProduct call by an administrator ends in one of three ways:
\* 200 with the product, 404 "Product not found", or 400 "No update data
\* provided"; also when a deleteProduct of the same id runs between the
\* update's write and its re-read.
C24_ThreeOutcomes ==
    \A p \in ShopProcs :
        ( pc[p] = "done" /\ req[p].op = "update_product" )
          => resp[p].status \in {200, 404, 400}

\* C25: an administrator's updateProduct with no field provided ends 400
\* "No update data provided", also when the id is unknown; with a field
\* provided and an unknown id it ends 404 "Product not found"; in both cases
\* the products collection is unchanged.
NoFields(product_update) == \A f \in ProductFields : product_update[f] = {}

C25_Step ==
    \A p \in ShopProcs :
        /\ ( /\ pc[p] = "idle" /\ pc'[p] # "idle" /\ req'[p].op = "update_product"
             /\ IsAdminCall(req'[p].credentials)
             /\ NoFields(req'[p].product_update) )
               => /\ pc'[p] = "done"
                  /\ resp'[p] = [status |-> 400, detail |-> "No update data provided"]
                  /\ UNCHANGED store
        /\ ( /\ pc[p] = "idle" /\ pc'[p] # "idle" /\ req'[p].op = "update_product"
             /\ IsAdminCall(req'[p].credentials)
             /\ ~NoFields(req'[p].product_update) )
               => /\ pc'[p] = "update_product_update_one"
                  /\ UNCHANGED store
        /\ ( /\ pc[p] = "update_product_update_one" /\ pc'[p] # pc[p]
             /\ \A k \in DOMAIN products : products[k].id # req[p].product_id )
               => /\ ~NoFields(req[p].product_update)
                  /\ pc'[p] = "done"
                  /\ resp'[p] = [status |-> 404, detail |-> "Product not found"]
                  /\ UNCHANGED store

C25_UpdateProductFailures == [][C25_Step]_vars

\* For an id no product has, one call with no field ended 400 and one call
\* with a field ended 404; the catalog is as it was.
C25_Witness ==
    \E p \in ShopProcs, q \in ShopProcs :
        /\ pc[p] = "done" /\ req[p].op = "update_product" /\ req[p].product_id = 3
        /\ NoFields(req[p].product_update)
        /\ resp[p] = [status |-> 400, detail |-> "No update data provided"]
        /\ pc[q] = "done" /\ req[q].op = "update_product" /\ req[q].product_id = 3
        /\ resp[q] = [status |-> 404, detail |-> "Product not found"]
        /\ \A k \in DOMAIN products : products[k].id # 3
        /\ Len(products) = 2

\* C26: with every cart quantity >= 1 and no catalog call, in every reachable
\* state and for every product, the stock taken off since the start (initial
\* stock_quantity - current stock_quantity) is at least the sum of that
\* product's quantities over the items of all persisted orders, for every
\* interleaving of concurrent placeOrder calls.
RECURSIVE UnitsInItems(_, _)
UnitsInItems(items, id) ==
    IF items = <<>> THEN 0
    ELSE (IF Head(items).product_id = id THEN Head(items).quantity ELSE 0)
         + UnitsInItems(Tail(items), id)

RECURSIVE UnitsInOrders(_, _)
UnitsInOrders(os, id) ==
    IF os = <<>> THEN 0
    ELSE UnitsInItems(Head(os).items, id) + UnitsInOrders(Tail(os), id)

RECURSIVE UnitsTaken(_, _)
UnitsTaken(applied, id) ==
    IF applied = <<>> THEN 0
    ELSE (IF Head(applied).product_id = id THEN -Head(applied).delta ELSE 0)
         + UnitsTaken(Tail(applied), id)

RECURSIVE UnitsTakenBy(_, _)
UnitsTakenBy(ps, id) ==
    IF ps = {} THEN 0
    ELSE LET p == CHOOSE x \in ps : TRUE
         IN  (IF req[p].op = "create_order" /\ loc[p] # NoLocals
              THEN UnitsTaken(loc[p].applied, id) ELSE 0)
             + UnitsTakenBy(ps \ {p}, id)

\* The shop opens with 1..MaxStock units of product 1 and one unit of product 2.
InitialStock(id) ==
    products[id].stock_quantity + UnitsTakenBy(ShopProcs, id)

C26_UnitsCovered ==
    /\ Len(products) = 2 /\ products[1].id = 1 /\ products[2].id = 2
    /\ InitialStock(1) \in 1..MaxStock
    /\ InitialStock(2) = 1
    /\ \A id \in {1, 2} :
          InitialStock(id) - products[id].stock_quantity >= UnitsInOrders(orders, id)

\* One order of one unit of product 1 is persisted and a second call took
\* another unit of it before failing on its next item: two units are off the
\* stock, one is in an order.
C26_Witness ==
    /\ \A p \in ShopProcs : CreateOrderDone(p)
    /\ Len(orders) = 1
    /\ UnitsInOrders(orders, 1) = 1
    /\ InitialStock(1) - products[1].stock_quantity = 2
    /\ \E p \in ShopProcs : resp[p].status = 400

\* C27: placeOrder with an empty cart by any authenticated identity succeeds:
\* it persists and returns an order with no items, total_amount 0 and status
\* pending, and changes no product's stock.
C27_Step ==
    \A p \in ShopProcs :
        /\ ( /\ pc[p] = "idle" /\ pc'[p] # "idle" /\ req'[p].op = "create_order"
             /\ req'[p].order_data.items = <<>>
             /\ jwt_decode_ok(req'[p].credentials)
             /\ Registered(req'[p].credentials.sub) )
               => /\ pc'[p] = "create_order_insert_one"
                  /\ UNCHANGED store
        /\ ( /\ pc[p] # "done" /\ pc'[p] = "done" /\ req[p].op = "create_order"
             /\ req[p].order_data.items = <<>> )
               => /\ pc[p] = "create_order_insert_one"
                  /\ resp'[p].status = 200
                  /\ resp'[p].body.items = <<>>
                  /\ resp'[p].body.total_amount = 0
                  /\ resp'[p].body.status = "pending"
                  /\ resp'[p].body.user_email = req[p].credentials.sub
                  /\ orders' = Append(orders, resp'[p].body)
                  /\ products' = products

C27_EmptyCartNoStock ==
    \A p \in ShopProcs :
        (req[p].op = "create_order" /\ pc[p] # "idle" /\ req[p].order_data.items = <<>>)
          => loc[p].applied = <<>>

C27_EmptyCartSucceeds == []C27_EmptyCartNoStock /\ [][C27_Step]_vars

\* One call alone with an empty cart has returned: an order with no items and
\* total 0 is stored after Bob's, and the stock is the opening stock.
C27_Witness ==
    \E p \in ShopProcs :
        /\ CreateOrderDone(p) /\ req[p].order_data.items = <<>>
        /\ \A q \in ShopProcs \ {p} : pc[q] = "idle"
        /\ resp[p].status = 200
        /\ Len(orders) = 2 /\ orders[2] = resp[p].body
        /\ orders[2].items = <<>> /\ orders[2].total_amount = 0
        /\ orders[2].status = "pending"
        /\ products[2].stock_quantity = 1

====
